---- MODULE Spec2Model ----
(***************************************************************************)
(* Behavioural stress scoring service                                      *)
(* (backend/services/stress_behavior_service.py): the predictor singleton, *)
(* the per-user TemporalSmoother registry, the Platt calibrator files and  *)
(* the scoring / training entry points.                                    *)
(*                                                                         *)
(* Probabilities are exact rationals.  A probability is stored as an       *)
(* integer number of units, where 1.0 == 10 * Tenth and                    *)
(* Tenth == 20 ^ MaxCalls.  Both smoothing factors are twentieths          *)
(* (0.35 = 7/20, 0.85 = 17/20), every input is a whole number of tenths    *)
(* and a smoother is stepped at most MaxCalls times, so every EMA update   *)
(* divides exactly: no rounding is introduced by the model.                *)
(***************************************************************************)
EXTENDS Integers, Sequences, FiniteSets, TLC

\* ------------------------------------------------------------------ bounds
\* Scoring / step calls explored per behaviour.
MaxCalls == 3

RECURSIVE Pow20(_)
Pow20(n) == IF n = 0 THEN 1 ELSE 20 * Pow20(n - 1)

\* 0.1 in model units.
Tenth == Pow20(MaxCalls)

\* n tenths as a probability.
T(n) == n * Tenth

Min(a, b) == IF a <= b THEN a ELSE b
Max(a, b) == IF a >= b THEN a ELSE b

\* Python's None (an unset EMA, an unset singleton, a missing dict entry).
None == -1

\* ------------------------------------------------------- smoother constants
\* alpha_active = 0.35 and alpha_idle = 0.85, in twentieths.
AlphaActive == 7
AlphaIdle == 17
\* idle_reset_k = 2, baseline = 0.20 (tenths), on/off margins 0.10 (tenths).
IdleResetK == 2
BaselineTenths == 2
OnDeltaTenths == 1
OffDeltaTenths == 1
\* meta.get("idle_clamp_prob", 0.10) and meta.get("best_thresh", 0.5), tenths.
IdleClampTenths == 1
DefaultThreshTenths == 5

Users == {"harsh", "amy"}

\* The meta JSON's best_thresh (tenths): the default and a lower trained one.
Metas == { [best_thresh |-> DefaultThreshTenths], [best_thresh |-> 3] }

\* --------------------------------------------------------- TemporalSmoother
\* TemporalSmoother.__init__: thresholds from the caller, EMA unset, OFF.
NewSmoother(on_thresh, off_thresh) ==
  [ on_t |-> on_thresh, off_t |-> off_thresh,
    ema |-> None, state |-> 0, idle_count |-> 0 ]

\* EmaUpdate adding the new sample without decaying the old estimate.
EmaUpdateNoDecay(ema, p, is_idle) ==
  LET a == IF is_idle THEN AlphaIdle ELSE AlphaActive
  IN  IF ema = None THEN p
      ELSE (a * p + 20 * ema) \div 20

\* step, lines 88-93: pick alpha by activity, seed or blend the EMA.
EmaUpdate(ema, p, is_idle) ==
  LET a == IF is_idle THEN AlphaIdle ELSE AlphaActive
  IN  IF ema = None THEN p
      ELSE (a * p + (20 - a) * ema) \div 20

\* IdleBranch resetting one idle window late (> instead of >=).
IdleBranchLate(s, is_idle) ==
  IF is_idle
  THEN LET c == s.idle_count + 1
       IN  IF c > IdleResetK
           THEN [s EXCEPT !.idle_count = c, !.ema = T(BaselineTenths), !.state = 0]
           ELSE [s EXCEPT !.idle_count = c]
  ELSE [s EXCEPT !.idle_count = 0]

\* IdleBranch resetting on the idle_reset_k-th idle step only (== for >=).
IdleBranchOnce(s, is_idle) ==
  IF is_idle
  THEN LET c == s.idle_count + 1
       IN  IF c = IdleResetK
           THEN [s EXCEPT !.idle_count = c, !.ema = T(BaselineTenths), !.state = 0]
           ELSE [s EXCEPT !.idle_count = c]
  ELSE [s EXCEPT !.idle_count = 0]

\* step, lines 96-103: the idle streak and the hard reset to the baseline.
IdleBranch(s, is_idle) ==
  IF is_idle
  THEN LET c == s.idle_count + 1
       IN  IF c >= IdleResetK
           THEN [s EXCEPT !.idle_count = c, !.ema = T(BaselineTenths), !.state = 0]
           ELSE [s EXCEPT !.idle_count = c]
  ELSE [s EXCEPT !.idle_count = 0]

\* Hysteresis turning ON at the off threshold: no dead band.
HysteresisNoBand(s) ==
  IF s.state = 0 /\ s.ema >= s.off_t THEN [s EXCEPT !.state = 1]
  ELSE IF s.state = 1 /\ s.ema <= s.off_t THEN [s EXCEPT !.state = 0]
  ELSE s

\* Hysteresis with strict comparisons: an EMA on a threshold changes nothing.
HysteresisStrict(s) ==
  IF s.state = 0 /\ s.ema > s.on_t THEN [s EXCEPT !.state = 1]
  ELSE IF s.state = 1 /\ s.ema < s.off_t THEN [s EXCEPT !.state = 0]
  ELSE s

\* step, lines 106-109: hysteresis on the EMA, one branch per step.
Hysteresis(s) ==
  IF s.state = 0 /\ s.ema >= s.on_t THEN [s EXCEPT !.state = 1]
  ELSE IF s.state = 1 /\ s.ema <= s.off_t THEN [s EXCEPT !.state = 0]
  ELSE s

\* TemporalSmoother.step: the smoother after the call; it returns (ema, state).
Step(s, p, is_idle) ==
  Hysteresis(IdleBranch([s EXCEPT !.ema = EmaUpdate(s.ema, p, is_idle)], is_idle))

\* TemporalSmoother.force_off.
ForceOff(s) == [s EXCEPT !.state = 0]

\* ------------------------------------------------------------ PlattCalibrator
\* The content of artifacts/calibrators/cal_<user>.json: no file, a complete
\* JSON record, or a file opened for writing whose record is not written yet.
NoFile == [kind |-> "absent"]
Truncated == [kind |-> "truncated"]
JsonRecord(c, i) == [kind |-> "json", coef_ |-> c, intercept_ |-> i]

\* Fitted (coef_, intercept_) pairs LogisticRegression may produce, as integers.
CalParams == { <<4, -2>> }
CalRecords == { JsonRecord(ci[1], ci[2]) : ci \in CalParams }

\* PlattCalibrator.__init__ with no arguments.
UnfitCal == [coef_ |-> None, intercept_ |-> None, isnone |-> TRUE]

\* from_file handing the two values to the constructor in the wrong order.
FromFileSwapped(f) ==
  IF f.kind = "absent" THEN [raised |-> FALSE, cal |-> UnfitCal]
  ELSE IF f.kind = "truncated" THEN [raised |-> TRUE, cal |-> UnfitCal]
  ELSE [raised |-> FALSE,
        cal |-> [coef_ |-> f.intercept_, intercept_ |-> f.coef_, isnone |-> FALSE]]

\* from_file that never finds the record, as a calibrator cached from before
\* the record was saved would be.
FromFileNoRecord(f) ==
  IF f.kind = "truncated" THEN [raised |-> TRUE, cal |-> UnfitCal]
  ELSE [raised |-> FALSE, cal |-> UnfitCal]

\* PlattCalibrator.from_file: unfit when the file is missing, else json.load,
\* which raises on a file that holds no complete JSON document.
FromFile(f) ==
  IF f.kind = "absent" THEN [raised |-> FALSE, cal |-> UnfitCal]
  ELSE IF f.kind = "truncated" THEN [raised |-> TRUE, cal |-> UnfitCal]
  ELSE [raised |-> FALSE,
        cal |-> [coef_ |-> f.coef_, intercept_ |-> f.intercept_,
                 isnone |-> (f.coef_ = None \/ f.intercept_ = None)]]

\* PlattCalibrator.save once the file is closed: json.dump of to_dict(); the
\* floats are written with repr, which json.load reads back unchanged.
Save(cal) == JsonRecord(cal.coef_, cal.intercept_)

\* PlattCalibrator.is_fit
IsFit(cal) == ~cal.isnone

\* 1/(1+exp(-z)) to the nearest tenth, z given in tenths: the number of the
\* tenth boundaries logit(0.05), logit(0.15), ..., logit(0.95) at or below z.
Sigmoid(z10) ==
  Cardinality({ b \in {-29, -17, -10, -6, -2, 3, 7, 11, 18, 30} : z10 >= b })

\* predict_proba with a sigmoid(raw) fallback for a calibrator that is not fit.
PredictProbaSigmoidFallback(cal, rawTenths) ==
  IF cal.isnone THEN [raised |-> FALSE, value |-> Sigmoid(rawTenths)]
  ELSE [raised |-> FALSE,
        value |-> Sigmoid(cal.coef_ * rawTenths + 10 * cal.intercept_)]

\* PlattCalibrator.predict_proba on one raw probability given in tenths:
\* coef_ * scores + intercept_ raises TypeError while coef_ is None.
PredictProba(cal, rawTenths) ==
  IF cal.isnone THEN [raised |-> TRUE, value |-> None]
  ELSE [raised |-> FALSE,
        value |-> Sigmoid(cal.coef_ * rawTenths + 10 * cal.intercept_)]

\* ------------------------------------------------------------------ _is_idle
\* Activity fields of a window, in millionths (eps = 1e-6 is 1, 0.02 is 20000).
ActivityCounts ==
  { "ks_event_count", "ks_keydowns", "ks_keyups",
    "mouse_move_count", "mouse_click_count", "mouse_scroll_count" }
Eps == 1
ActiveFractionMax == 20000

\* float(row.get(name, 0.0) or 0.0): an absent field and a field holding
\* None read as 0.
Field(row, name) ==
  IF name \in DOMAIN row /\ row[name] # None THEN row[name] ELSE 0

\* _is_idle with the fraction compared by < instead of <=.
IsIdleStrict(row) ==
  /\ \A k \in ActivityCounts : Field(row, k) <= Eps
  /\ Field(row, "active_seconds_fraction") < ActiveFractionMax

IsIdle(row) ==
  /\ \A k \in ActivityCounts : Field(row, k) <= Eps
  /\ Field(row, "active_seconds_fraction") <= ActiveFractionMax

\* Windows offered to the service.
QuietRow == [k \in {} |-> 0]
TypingRow ==
  [ks_event_count |-> 6000000, ks_keydowns |-> 3000000, ks_keyups |-> 3000000,
   active_seconds_fraction |-> 400000]
MouseRow == [mouse_move_count |-> 40000000, active_seconds_fraction |-> 100000]
EdgeRow == [ks_event_count |-> 1, active_seconds_fraction |-> 20000]
WatchingRow == [active_seconds_fraction |-> 20001]
Rows == { QuietRow, TypingRow, MouseRow, EdgeRow, WatchingRow }

\* Raw head probabilities (tenths) the scaler/head pair may return.
RawTenths == { 2, 9 }

\* -------------------------------------------------------- BehaviorPredictor
Artifacts == { "meta", "feature_names", "head", "scaler" }

\* _PREDICTOR = None.
NoPredictor == [set |-> FALSE, parts |-> {}, default_thresh |-> None]

\* NewPredictor without the scaler check of lines 181-182.
NewPredictorNoScalerCheck(arts, m) ==
  LET partial(ps) == [set |-> TRUE, parts |-> ps, default_thresh |-> None]
  IN  IF "meta" \notin arts THEN [raised |-> TRUE, obj |-> partial({})]
      ELSE IF "feature_names" \notin arts
        THEN [raised |-> TRUE, obj |-> partial({"meta"})]
      ELSE IF "head" \notin arts
        THEN [raised |-> TRUE, obj |-> partial({"meta", "feature_names"})]
      ELSE [raised |-> FALSE,
            obj |-> [set |-> TRUE, parts |-> arts \cap Artifacts,
                     default_thresh |-> m.best_thresh]]

\* BehaviorPredictor.__init__: loads the meta JSON, requires a non-empty
\* feature_names list, finds the head, requires the scaler, loads both; it
\* raises at the first artifact that is missing, with the object half built.
NewPredictor(arts, m) ==
  LET partial(ps) == [set |-> TRUE, parts |-> ps, default_thresh |-> None]
  IN  IF "meta" \notin arts THEN [raised |-> TRUE, obj |-> partial({})]
      ELSE IF "feature_names" \notin arts
        THEN [raised |-> TRUE, obj |-> partial({"meta"})]
      ELSE IF "head" \notin arts
        THEN [raised |-> TRUE, obj |-> partial({"meta", "feature_names"})]
      ELSE IF "scaler" \notin arts
        THEN [raised |-> TRUE, obj |-> partial({"meta", "feature_names"})]
      ELSE [raised |-> FALSE,
            obj |-> [set |-> TRUE, parts |-> Artifacts,
                     default_thresh |-> m.best_thresh]]

\* init_service: the singleton after the call; a raising constructor leaves
\* the global as it was.
InitServiceResult(P, arts, m) ==
  IF P.set THEN [raised |-> FALSE, pred |-> P]
  ELSE LET r == NewPredictor(arts, m)
       IN  IF r.raised THEN [raised |-> TRUE, pred |-> P]
           ELSE [raised |-> FALSE, pred |-> r.obj]

\* predict without the idle clamp.
IdleClampNone(cal_prob, idle) == cal_prob

\* predict, lines 219-222: the idle clamp on the calibrated probability.
IdleClamp(cal_prob, idle) ==
  IF idle THEN Min(cal_prob, T(IdleClampTenths)) ELSE cal_prob

\* Calibration that returns the logit coef_ * raw + intercept_ itself.
CalibrateLogit(cal, rawTenths) ==
  IF IsFit(cal) THEN T(cal.coef_ * rawTenths + 10 * cal.intercept_)
  ELSE T(rawTenths)

\* predict, lines 209-217: the per-user calibration of the raw probability.
Calibrate(cal, rawTenths) ==
  IF IsFit(cal) THEN T(PredictProba(cal, rawTenths).value) ELSE T(rawTenths)

\* Decision without the idle override of line 239.
DecisionNoOverride(stepState, idle) == stepState

\* predict, lines 234-239: the decision reported for the window.
Decision(stepState, idle) == IF idle THEN 0 ELSE stepState

\* predict overriding the decision without calling force_off.
AfterStepNoForceOff(s, idle) == s

\* predict, lines 236-238: the smoother left behind by the call.
AfterStep(s, idle) == IF idle THEN ForceOff(s) ELSE s

\* No dictionary: the call raised.
NoOut ==
  [ raw_prob |-> None, calibrated_prob |-> None, smoothed_prob |-> None,
    is_stressed |-> FALSE, threshold_used |-> None, has_calibrator |-> FALSE ]

\* Predict calming the smoother when the backend raises.
PredictCalmsOnError(thresh, s, row, backend, f) ==
  IF backend = None \/ f.raised
  THEN [raised |-> TRUE, smoother |-> ForceOff(s), out |-> NoOut]
  ELSE
  LET idle == IsIdle(row)
      cal_prob == IdleClamp(Calibrate(f.cal, backend), idle)
      s1 == Step(s, cal_prob, idle)
  IN  [ raised |-> FALSE,
        smoother |-> AfterStep(s1, idle),
        out |-> [ raw_prob |-> T(backend),
                  calibrated_prob |-> cal_prob,
                  smoothed_prob |-> s1.ema,
                  is_stressed |-> (Decision(s1.state, idle) = 1),
                  threshold_used |-> thresh,
                  has_calibrator |-> IsFit(f.cal) ] ]

\* BehaviorPredictor.predict: backend is what scaler.transform and the head
\* do (a raw probability in tenths, None when one raises) and f what loading
\* the user's calibrator does.  The smoother after the call and the
\* dictionary returned; a raise comes before smoother.step is reached.
Predict(thresh, s, row, backend, f) ==
  IF backend = None \/ f.raised
  THEN [raised |-> TRUE, smoother |-> s, out |-> NoOut]
  ELSE
  LET idle == IsIdle(row)
      cal_prob == IdleClamp(Calibrate(f.cal, backend), idle)
      s1 == Step(s, cal_prob, idle)
  IN  [ raised |-> FALSE,
        smoother |-> AfterStep(s1, idle),
        out |-> [ raw_prob |-> T(backend),
                  calibrated_prob |-> cal_prob,
                  smoothed_prob |-> s1.ema,
                  is_stressed |-> (Decision(s1.state, idle) = 1),
                  threshold_used |-> thresh,
                  has_calibrator |-> IsFit(f.cal) ] ]

\* predict_from_row, lines 301-308: the smoother built for a new user.
SmootherFor(thresh) ==
  NewSmoother(T(thresh + OnDeltaTenths), T(thresh - OffDeltaTenths))

\* train_user_calibrator: min_rows = 200.
MinRows == 200

\* ------------------------------------------------------------------- state
VARIABLES
  artifacts,   \* the artifact files present on disk
  meta,        \* the content of global_head_meta.json
  PREDICTOR,   \* _PREDICTOR
  SMOOTHERS,   \* _SMOOTHERS: user id -> smoother object id, 0 when no entry
  heap,        \* the TemporalSmoother objects built so far, by object id
  calFile,     \* user id -> content of cal_<user>.json
  LOCK,        \* _LOCK: the thread holding it, 0 when free
  pc,          \* thread -> position in its call
  loc,         \* thread -> the call's arguments and local variables
  lastCall,    \* the call that completed last, with what it returned
  idleRun,     \* user id -> length of the current run of scored idle windows
  nsteps,      \* TemporalSmoother.step calls made so far
  heap0,       \* the smoother objects when the threads were started
  engine,      \* the RiskEngine object of the dashboard
  applied,     \* the function applied last on its own, with its result
  stats,       \* one component of an OnlineStats object
  predictors,  \* BehaviorPredictor objects built so far, and the one _PREDICTOR is (0: None)
  collector,   \* the dashboard's TelemetryCollector
  pollers,     \* where each thread started on _poll_loop is
  HISTORY_MESSAGES_MAX, \* STRESS_BOT_HISTORY_MAX as read when the chatbot module is imported
  SESSIONS,    \* the chatbot's _SESSIONS: session id -> deque of messages
  lastChat     \* the last chatbot call and its HTTP status; turns answered so far

vars ==
  << artifacts, meta, PREDICTOR, SMOOTHERS, heap, calFile, LOCK, pc, loc,
     lastCall, idleRun, nsteps, heap0, engine, applied, stats, predictors,
     collector, pollers, HISTORY_MESSAGES_MAX, SESSIONS, lastChat >>

Threads == {1, 2}

\* RiskEngine.__init__: the anomaly model is not fitted and X_hist is empty;
\* X_hist is kept by its length, fits counts the calls of iforest.fit and
\* fit_rows is the number of rows the last of them was given.
NewRiskEngine == [if_ready |-> FALSE, X_hist |-> 0, fits |-> 0, fit_rows |-> 0]

\* OnlineStats.__init__: mu and var are None.
\* chatbot_service: the default of STRESS_BOT_HISTORY_MAX, the session ids
\* callers send, a session id with no entry in _SESSIONS, and no call yet.
DefaultHistoryMax == 10
SessionIds == { "s1", "s2" }
NoSession == [exists |-> FALSE, msgs |-> << >>]
NoChat == [op |-> "none", sid |-> "", status |-> 0, turns |-> 0]

\* TelemetryCollector.__init__: not running, no thread, nothing sampled.
\* listening is whether the listeners of the last start() are still alive.
NewCollector ==
  [ running |-> FALSE, thread |-> 0, listening |-> FALSE,
    idle_samples |-> 0, per_minute |-> 0 ]

NewStats == [isnone |-> TRUE, mu |-> 0, var |-> 0, n |-> 0]

\* No function has been applied on its own yet.
NoApplied == [fn |-> "none"]

NoCall ==
  [op |-> "none", uid |-> "harsh", status |-> "none", idle |-> FALSE, out |-> NoOut]

\* What smoother.step returned to a thread.
NoReturn == [ema |-> None, state |-> 0]

NoLocals ==
  [ op |-> "none", uid |-> "harsh", idle |-> FALSE, backend |-> None,
    p |-> None, sm |-> 0, ema |-> None, cnt |-> 0, ret |-> NoReturn,
    status |-> "none", out |-> NoOut, saw |-> NoFile, new |-> NoFile,
    cal |-> UnfitCal, made |-> 0, got |-> 0 ]

\* The state after the module is imported, for each set of artifacts on disk.
InitCommon ==
  /\ artifacts \in { Artifacts } \cup { Artifacts \ {a} : a \in Artifacts }
  /\ meta \in Metas
  /\ PREDICTOR = NoPredictor
  /\ SMOOTHERS = [u \in Users |-> 0]
  /\ heap = << >>
  /\ calFile = [u \in Users |-> NoFile]
  /\ LOCK = 0
  /\ pc = [t \in Threads |-> "idle"]
  /\ loc = [t \in Threads |-> NoLocals]
  /\ lastCall = NoCall
  /\ idleRun = [u \in Users |-> 0]
  /\ nsteps = 0
  /\ heap0 = << >>
  /\ engine = NewRiskEngine
  /\ applied = NoApplied
  /\ stats = NewStats
  /\ predictors = [built |-> 0, current |-> 0]
  /\ collector = NewCollector
  /\ pollers = << >>
  /\ HISTORY_MESSAGES_MAX = DefaultHistoryMax
  /\ SESSIONS = [sid \in SessionIds |-> NoSession]
  /\ lastChat = NoChat

Init == InitCommon

chatVars == << HISTORY_MESSAGES_MAX, SESSIONS, lastChat >>

threadVars ==
  << LOCK, pc, loc, heap0, engine, applied, stats, predictors, collector,
     pollers, HISTORY_MESSAGES_MAX, SESSIONS, lastChat >>

\* The smoother registered for a user.
SmootherOf(u) == heap[SMOOTHERS[u]]

\* ------------------------------------------------- calls, one at a time
\* A missing artifact is put in place.
InstallArtifact(a) ==
  /\ a \notin artifacts
  /\ artifacts' = artifacts \cup {a}
  /\ UNCHANGED << meta, PREDICTOR, SMOOTHERS, heap, calFile, threadVars,
                  lastCall, idleRun, nsteps >>

\* init_service() at application start.
InitService ==
  LET r == InitServiceResult(PREDICTOR, artifacts, meta)
  IN  /\ PREDICTOR' = r.pred
      /\ lastCall' = [NoCall EXCEPT !.op = "init",
                        !.status = IF r.raised THEN "raised" ELSE "ok"]
      /\ UNCHANGED << artifacts, meta, SMOOTHERS, heap, calFile, threadVars,
                      idleRun, nsteps >>

\* uid = str(user_id or row.get("user_id") or "harsh"); the rows of the model
\* carry no user_id field, and "" stands for a user_id that was not given.
ResolveUidDefault(user_id) == "harsh"

ResolveUid(user_id) == IF user_id = "" THEN "harsh" ELSE user_id

\* predict_from_row(row, user_id); backend is what scaler.transform and the head
\* do for this row: a raw probability in tenths, or None when one raises.
PredictFromRow(user_id, row, backend) ==
  LET g == InitServiceResult(PREDICTOR, artifacts, meta)
      uid == ResolveUid(user_id)
      fresh == SMOOTHERS[uid] = 0
      heap1 == IF fresh THEN Append(heap, SmootherFor(g.pred.default_thresh))
               ELSE heap
      id == IF fresh THEN Len(heap1) ELSE SMOOTHERS[uid]
      f == FromFile(calFile[uid])
      r == Predict(g.pred.default_thresh, heap1[id], row, backend, f)
      raisedCall == [NoCall EXCEPT !.op = "predict", !.status = "raised"]
  IN  /\ UNCHANGED << artifacts, meta, calFile, threadVars >>
      /\ IF g.raised
         THEN \* get_predictor raised: nothing was touched
              /\ lastCall' = raisedCall
              /\ UNCHANGED << PREDICTOR, SMOOTHERS, heap, idleRun, nsteps >>
         ELSE /\ PREDICTOR' = g.pred
              /\ SMOOTHERS' = [SMOOTHERS EXCEPT ![uid] = id]
              /\ heap' = [heap1 EXCEPT ![id] = r.smoother]
              /\ IF r.raised
                 THEN /\ lastCall' = raisedCall
                      /\ UNCHANGED << idleRun, nsteps >>
                 ELSE /\ nsteps < MaxCalls
                      /\ lastCall' = [op |-> "predict", uid |-> user_id,
                                      status |-> "ok", idle |-> IsIdle(row),
                                      out |-> r.out]
                      /\ idleRun' = [idleRun EXCEPT ![uid] =
                                       IF IsIdle(row) THEN @ + 1 ELSE 0]
                      /\ nsteps' = nsteps + 1

\* What cal.fit can do with the head scores of the user's rows.
FitRaises == [kind |-> "raise"]
FitResults == CalRecords \cup { FitRaises }

\* train_user_calibrator(uid): csv says whether labels/stress_30s.csv exists,
\* nrows is the number of qualifying rows of the user, fitted is what
\* scaler.transform, the head and cal.fit make of them.
\* TrainOutcome without the row-count check of lines 394-395.
TrainOutcomeNoRowCheck(csv, nrows, fitted) ==
  IF ~csv THEN "FileNotFoundError"
  ELSE IF fitted = [kind |-> "raise"] THEN "raised in fit"
  ELSE "ok"

TrainOutcome(csv, nrows, fitted) ==
  IF ~csv THEN "FileNotFoundError"
  ELSE IF nrows < MinRows THEN "ValueError: need rows"
  ELSE IF fitted = FitRaises THEN "raised in fit"
  ELSE "ok"

TrainUserCalibrator(uid, csv, nrows, fitted) ==
  LET g == InitServiceResult(PREDICTOR, artifacts, meta)
      oc == IF g.raised THEN "raised" ELSE TrainOutcome(csv, nrows, fitted)
  IN  /\ PREDICTOR' = g.pred
      /\ calFile' = IF oc = "ok" THEN [calFile EXCEPT ![uid] = Save(fitted)]
                    ELSE calFile
      /\ lastCall' = [NoCall EXCEPT !.op = "train", !.status = oc]
      /\ UNCHANGED << artifacts, meta, SMOOTHERS, heap, threadVars, idleRun, nsteps >>

RowCounts == { MinRows - 1, MinRows }

Next ==
  \/ \E a \in Artifacts : InstallArtifact(a)
  \/ InitService
  \/ \E u \in Users, row \in Rows, b \in RawTenths \cup {None} :
       PredictFromRow(u, row, b)
  \/ \E u \in Users, csv \in BOOLEAN, n \in RowCounts, fit \in FitResults :
       TrainUserCalibrator(u, csv, n, fit)

Spec == Init /\ [][Next]_vars

\* ------------------------------------------- TemporalSmoother on its own
\* Probabilities (tenths) handed to step.
StepTenths == { 0, 1, 3, 4, 5, 6, 8, 10 }

\* One smoother, built as predict_from_row builds it, is object 1.
InitStep ==
  /\ artifacts = Artifacts
  /\ meta \in Metas
  /\ PREDICTOR = NoPredictor
  /\ SMOOTHERS = [u \in Users |-> IF u = "harsh" THEN 1 ELSE 0]
  /\ heap = << SmootherFor(meta.best_thresh) >>
  /\ calFile = [u \in Users |-> NoFile]
  /\ LOCK = 0
  /\ pc = [t \in Threads |-> "idle"]
  /\ loc = [t \in Threads |-> NoLocals]
  /\ lastCall = NoCall
  /\ idleRun = [u \in Users |-> 0]
  /\ nsteps = 0
  /\ heap0 = << >>
  /\ engine = NewRiskEngine
  /\ applied = NoApplied
  /\ stats = NewStats
  /\ predictors = [built |-> 0, current |-> 0]
  /\ collector = NewCollector
  /\ pollers = << >>
  /\ HISTORY_MESSAGES_MAX = DefaultHistoryMax
  /\ SESSIONS = [sid \in SessionIds |-> NoSession]
  /\ lastChat = NoChat

\* smoother.step(p, is_idle) and the pair it returns.
StepCall(p, is_idle) ==
  LET s1 == Step(heap[1], T(p), is_idle)
  IN  /\ nsteps < MaxCalls
      /\ heap' = [heap EXCEPT ![1] = s1]
      /\ lastCall' = [op |-> "step", uid |-> "harsh", status |-> "ok",
                      idle |-> is_idle,
                      out |-> [NoOut EXCEPT !.calibrated_prob = T(p),
                                            !.smoothed_prob = s1.ema,
                                            !.is_stressed = (s1.state = 1)]]
      /\ idleRun' = [idleRun EXCEPT !["harsh"] = IF is_idle THEN @ + 1 ELSE 0]
      /\ nsteps' = nsteps + 1
      /\ UNCHANGED << artifacts, meta, PREDICTOR, SMOOTHERS, calFile, threadVars >>

NextStep == \E p \in StepTenths, i \in BOOLEAN : StepCall(p, i)

SpecStep == InitStep /\ [][NextStep]_vars

\* ------------------------------------------------ calls on two threads
\* One predict_from_row call per thread, in the steps at which another
\* thread can run in between: the registry lookup under _LOCK, then predict
\* with the reads and writes of the smoother's fields one by one.
ConcRows == { QuietRow, TypingRow }

\* The service after init_service, with no smoother yet or with harsh's
\* smoother as one scored window leaves it.
EarlierWindows ==
  { Predict(DefaultThreshTenths, SmootherFor(DefaultThreshTenths),
            TypingRow, b, FromFile(NoFile)).smoother : b \in RawTenths }

InitThreads ==
  /\ artifacts = Artifacts
  /\ meta = [best_thresh |-> DefaultThreshTenths]
  /\ PREDICTOR = NewPredictor(artifacts, meta).obj
  /\ LOCK = 0
  /\ pc = [t \in Threads |-> "idle"]
  /\ loc = [t \in Threads |-> NoLocals]
  /\ lastCall = NoCall
  /\ idleRun = [u \in Users |-> 0]
  /\ \/ /\ heap = << >>
        /\ SMOOTHERS = [u \in Users |-> 0]
        /\ nsteps = 0
     \/ /\ \E s \in EarlierWindows : heap = << s >>
        /\ SMOOTHERS = [u \in Users |-> IF u = "harsh" THEN 1 ELSE 0]
        /\ nsteps = 1
  /\ heap0 = heap
  /\ engine = NewRiskEngine
  /\ applied = NoApplied
  /\ stats = NewStats
  /\ predictors = [built |-> 0, current |-> 0]
  /\ collector = NewCollector
  /\ pollers = << >>
  /\ HISTORY_MESSAGES_MAX = DefaultHistoryMax
  /\ SESSIONS = [sid \in SessionIds |-> NoSession]
  /\ lastChat = NoChat

InitConc ==
  /\ InitThreads
  /\ calFile = [u \in Users |-> NoFile]

serviceVars ==
  << artifacts, meta, PREDICTOR, idleRun, heap0, engine, applied, stats,
     predictors, collector, pollers, HISTORY_MESSAGES_MAX, SESSIONS, lastChat >>

Goto(t, label) == pc' = [pc EXCEPT ![t] = label]

\* predict_from_row is entered; get_predictor returns the singleton.
StartPredict(t, uid, row, backend) ==
  /\ pc[t] = "idle"
  /\ PREDICTOR.set
  /\ loc' = [loc EXCEPT ![t] = [NoLocals EXCEPT !.op = "predict", !.uid = uid,
                                  !.idle = IsIdle(row), !.backend = backend]]
  /\ Goto(t, "acquire")
  /\ UNCHANGED << serviceVars, SMOOTHERS, heap, calFile, LOCK, lastCall, nsteps >>

\* AcquireLock entering the block without waiting for the lock.
AcquireNoWait(t) ==
  /\ pc[t] = "acquire"
  /\ LOCK' = t
  /\ Goto(t, "lookup")
  /\ UNCHANGED << serviceVars, SMOOTHERS, heap, calFile, loc, lastCall, nsteps >>

\* with _LOCK: (line 297)
AcquireLock(t) ==
  /\ pc[t] = "acquire"
  /\ LOCK = 0
  /\ LOCK' = t
  /\ Goto(t, "lookup")
  /\ UNCHANGED << serviceVars, SMOOTHERS, heap, calFile, loc, lastCall, nsteps >>

\* smoother = _SMOOTHERS.get(uid) (lines 298-299)
Lookup(t) ==
  /\ pc[t] = "lookup"
  /\ loc' = [loc EXCEPT ![t].sm = SMOOTHERS[loc[t].uid]]
  /\ Goto(t, IF SMOOTHERS[loc[t].uid] = 0 THEN "create" ELSE "release")
  /\ UNCHANGED << serviceVars, SMOOTHERS, heap, calFile, LOCK, lastCall, nsteps >>

\* smoother = TemporalSmoother(...); _SMOOTHERS[uid] = smoother (lines 301-309)
Create(t) ==
  /\ pc[t] = "create"
  /\ heap' = Append(heap, SmootherFor(PREDICTOR.default_thresh))
  /\ SMOOTHERS' = [SMOOTHERS EXCEPT ![loc[t].uid] = Len(heap) + 1]
  /\ loc' = [loc EXCEPT ![t].sm = Len(heap) + 1]
  /\ Goto(t, "release")
  /\ UNCHANGED << serviceVars, calFile, LOCK, lastCall, nsteps >>

\* the with block is left
ReleaseLock(t) ==
  /\ pc[t] = "release"
  /\ LOCK' = 0
  /\ Goto(t, "score")
  /\ UNCHANGED << serviceVars, SMOOTHERS, heap, calFile, loc, lastCall, nsteps >>

\* The call ends: what it returns or raises is the last completed call.
Finish(t, status, out) ==
  /\ loc' = [loc EXCEPT ![t].status = status, ![t].out = out]
  /\ lastCall' = [op |-> "predict", uid |-> loc[t].uid, status |-> status,
                  idle |-> loc[t].idle, out |-> out]
  /\ Goto(t, "done")

\* predict, lines 205-207: scaler.transform and the head.
Score(t) ==
  /\ pc[t] = "score"
  /\ IF loc[t].backend = None
     THEN Finish(t, "raised", NoOut)
     ELSE /\ Goto(t, "load")
          /\ UNCHANGED << loc, lastCall >>
  /\ UNCHANGED << serviceVars, SMOOTHERS, heap, calFile, LOCK, nsteps >>

\* predict, lines 210-222: the calibrator file is read as it is now, the raw
\* probability calibrated and clamped.
LoadCalibrator(t) ==
  LET f == FromFile(calFile[loc[t].uid])
  IN  /\ pc[t] = "load"
      /\ IF f.raised
         THEN /\ loc' = [loc EXCEPT ![t].saw = calFile[loc[t].uid],
                                    ![t].status = "raised"]
              /\ lastCall' = [NoCall EXCEPT !.op = "predict", !.uid = loc[t].uid,
                                !.status = "raised", !.idle = loc[t].idle]
              /\ Goto(t, "done")
         ELSE /\ loc' = [loc EXCEPT ![t].saw = calFile[loc[t].uid],
                           ![t].cal = f.cal,
                           ![t].out = [NoOut EXCEPT !.has_calibrator = IsFit(f.cal)],
                           ![t].p = IdleClamp(Calibrate(f.cal, loc[t].backend),
                                              loc[t].idle)]
              /\ Goto(t, "ema_read")
              /\ UNCHANGED lastCall
      /\ UNCHANGED << serviceVars, SMOOTHERS, heap, calFile, LOCK, nsteps >>

\* step, lines 90-93: self._ema is read ...
EmaRead(t) ==
  /\ pc[t] = "ema_read"
  /\ loc' = [loc EXCEPT ![t].ema = heap[loc[t].sm].ema]
  /\ Goto(t, "ema_write")
  /\ UNCHANGED << serviceVars, SMOOTHERS, heap, calFile, LOCK, lastCall, nsteps >>

\* ... and the new value is stored.
EmaWrite(t) ==
  /\ pc[t] = "ema_write"
  /\ nsteps < MaxCalls
  /\ heap' = [heap EXCEPT ![loc[t].sm].ema =
                EmaUpdate(loc[t].ema, loc[t].p, loc[t].idle)]
  /\ nsteps' = nsteps + 1
  /\ Goto(t, "count_read")
  /\ UNCHANGED << serviceVars, SMOOTHERS, calFile, LOCK, loc, lastCall >>

\* step, lines 96-103: self._idle_count is read (idle) or cleared ...
CountRead(t) ==
  /\ pc[t] = "count_read"
  /\ IF loc[t].idle
     THEN /\ loc' = [loc EXCEPT ![t].cnt = heap[loc[t].sm].idle_count]
          /\ Goto(t, "count_write")
          /\ UNCHANGED heap
     ELSE /\ heap' = [heap EXCEPT ![loc[t].sm] = IdleBranch(@, FALSE)]
          /\ Goto(t, "hysteresis")
          /\ UNCHANGED loc
  /\ UNCHANGED << serviceVars, SMOOTHERS, calFile, LOCK, lastCall, nsteps >>

\* ... and stored incremented, with the hard reset once it reaches the limit.
CountWrite(t) ==
  /\ pc[t] = "count_write"
  /\ heap' = [heap EXCEPT ![loc[t].sm] =
                IdleBranch([@ EXCEPT !.idle_count = loc[t].cnt], TRUE)]
  /\ Goto(t, "hysteresis")
  /\ UNCHANGED << serviceVars, SMOOTHERS, calFile, LOCK, loc, lastCall, nsteps >>

\* step, lines 106-111: the hysteresis branch and the pair returned.
HysteresisStep(t) ==
  LET s1 == Hysteresis(heap[loc[t].sm])
  IN  /\ pc[t] = "hysteresis"
      /\ heap' = [heap EXCEPT ![loc[t].sm] = s1]
      /\ loc' = [loc EXCEPT ![t].ret = [ema |-> s1.ema, state |-> s1.state]]
      /\ Goto(t, "after_step")
      /\ UNCHANGED << serviceVars, SMOOTHERS, calFile, LOCK, lastCall, nsteps >>

\* predict, lines 236-249: force_off on an idle window, and the result.
AfterStepReturn(t) ==
  /\ pc[t] = "after_step"
  /\ heap' = [heap EXCEPT ![loc[t].sm] = AfterStep(@, loc[t].idle)]
  /\ Finish(t, "ok",
            [ raw_prob |-> T(loc[t].backend),
              calibrated_prob |-> loc[t].p,
              smoothed_prob |-> loc[t].ret.ema,
              is_stressed |-> (Decision(loc[t].ret.state, loc[t].idle) = 1),
              threshold_used |-> PREDICTOR.default_thresh,
              has_calibrator |-> loc[t].out.has_calibrator ])
  /\ UNCHANGED << serviceVars, SMOOTHERS, calFile, LOCK, nsteps >>

PredictThread(t) ==
  \/ \E u \in Users, row \in ConcRows, b \in RawTenths \cup {None} :
       StartPredict(t, u, row, b)
  \/ AcquireLock(t)
  \/ Lookup(t)
  \/ Create(t)
  \/ ReleaseLock(t)
  \/ Score(t)
  \/ LoadCalibrator(t)
  \/ EmaRead(t)
  \/ EmaWrite(t)
  \/ CountRead(t)
  \/ CountWrite(t)
  \/ HysteresisStep(t)
  \/ AfterStepReturn(t)

NextConc == \E t \in Threads : PredictThread(t)

SpecConc == InitConc /\ [][NextConc]_vars

\* ------------------------------------- a scoring call beside a training call
\* A record an earlier training run left for harsh.
OlderRecord == JsonRecord(1, 0)

InitCal ==
  /\ InitThreads
  /\ calFile \in { [u \in Users |-> NoFile],
                   [u \in Users |-> IF u = "harsh" THEN OlderRecord ELSE NoFile] }

\* train_user_calibrator up to cal.fit (lines 379-410): it raises, or it has
\* the fitted calibrator to save.
StartTrain(t, uid, csv, nrows, fitted) ==
  LET oc == TrainOutcome(csv, nrows, fitted)
  IN  /\ pc[t] = "idle"
      /\ PREDICTOR.set
      /\ IF oc = "ok"
         THEN /\ loc' = [loc EXCEPT ![t] = [NoLocals EXCEPT !.op = "train",
                                              !.uid = uid, !.new = fitted]]
              /\ Goto(t, "save_open")
              /\ UNCHANGED lastCall
         ELSE /\ loc' = [loc EXCEPT ![t] = [NoLocals EXCEPT !.op = "train",
                                              !.uid = uid, !.status = oc]]
              /\ lastCall' = [NoCall EXCEPT !.op = "train", !.status = oc]
              /\ Goto(t, "done")
      /\ UNCHANGED << serviceVars, SMOOTHERS, heap, calFile, LOCK, nsteps >>

\* save, line 153: open(path, "w") empties the file.
SaveOpen(t) ==
  /\ pc[t] = "save_open"
  /\ loc' = [loc EXCEPT ![t].saw = calFile[loc[t].uid]]
  /\ calFile' = [calFile EXCEPT ![loc[t].uid] = Truncated]
  /\ Goto(t, "save_dump")
  /\ UNCHANGED << serviceVars, SMOOTHERS, heap, LOCK, lastCall, nsteps >>

\* save, line 154: json.dump, and the file is closed with the whole record.
SaveDump(t) ==
  /\ pc[t] = "save_dump"
  /\ calFile' = [calFile EXCEPT ![loc[t].uid] = Save(loc[t].new)]
  /\ loc' = [loc EXCEPT ![t].status = "ok"]
  /\ lastCall' = [NoCall EXCEPT !.op = "train", !.status = "ok"]
  /\ Goto(t, "done")
  /\ UNCHANGED << serviceVars, SMOOTHERS, heap, LOCK, nsteps >>

TrainThread(t) ==
  \/ \E u \in Users, csv \in BOOLEAN, n \in RowCounts, fit \in FitResults :
       StartTrain(t, u, csv, n, fit)
  \/ SaveOpen(t)
  \/ SaveDump(t)

NextCal == PredictThread(1) \/ TrainThread(2)

SpecCal == InitCal /\ [][NextCal]_vars

\* ------------------------------------ init_service and get_predictor, threads
\* The module has been imported with every artifact on disk.
InitGet ==
  /\ InitCommon
  /\ artifacts = Artifacts

getVars ==
  << artifacts, meta, SMOOTHERS, heap, calFile, lastCall, idleRun, nsteps,
     heap0, engine, applied, stats, collector, pollers,
     chatVars >>

\* A thread enters init_service, or get_predictor (as predict_from_row and
\* train_user_calibrator do first).
StartGet(t, op) ==
  /\ pc[t] = "idle"
  /\ loc' = [loc EXCEPT ![t] = [NoLocals EXCEPT !.op = op]]
  /\ Goto(t, IF op = "get_predictor" THEN "get_check" ELSE "init_acquire")
  /\ UNCHANGED << getVars, PREDICTOR, predictors, LOCK >>

\* get_predictor: if _PREDICTOR is None.
GetCheck(t) ==
  /\ pc[t] = "get_check"
  /\ Goto(t, IF PREDICTOR.set THEN "get_return" ELSE "init_acquire")
  /\ UNCHANGED << getVars, PREDICTOR, predictors, LOCK, loc >>

\* init_service entering its with block without waiting for _LOCK.
InitAcquireNoWait(t) ==
  /\ pc[t] = "init_acquire"
  /\ LOCK' = t
  /\ Goto(t, "init_check")
  /\ UNCHANGED << getVars, PREDICTOR, predictors, loc >>

\* init_service: with _LOCK.
InitAcquire(t) ==
  /\ pc[t] = "init_acquire"
  /\ LOCK = 0
  /\ LOCK' = t
  /\ Goto(t, "init_check")
  /\ UNCHANGED << getVars, PREDICTOR, predictors, loc >>

\* init_service: if _PREDICTOR is None, under the lock.
InitCheck(t) ==
  /\ pc[t] = "init_check"
  /\ Goto(t, IF PREDICTOR.set THEN "init_release" ELSE "construct")
  /\ UNCHANGED << getVars, PREDICTOR, predictors, LOCK, loc >>

\* The right-hand side of the assignment: BehaviorPredictor() builds an object.
Construct(t) ==
  /\ pc[t] = "construct"
  /\ ~NewPredictor(artifacts, meta).raised
  /\ predictors' = [predictors EXCEPT !.built = @ + 1]
  /\ loc' = [loc EXCEPT ![t].made = predictors.built + 1]
  /\ Goto(t, "assign")
  /\ UNCHANGED << getVars, PREDICTOR, LOCK >>

\* The object is bound to _PREDICTOR.
Assign(t) ==
  /\ pc[t] = "assign"
  /\ PREDICTOR' = NewPredictor(artifacts, meta).obj
  /\ predictors' = [predictors EXCEPT !.current = loc[t].made]
  /\ Goto(t, "init_release")
  /\ UNCHANGED << getVars, LOCK, loc >>

\* The with block is left; init_service returns.
InitRelease(t) ==
  /\ pc[t] = "init_release"
  /\ LOCK' = 0
  /\ IF loc[t].op = "get_predictor"
     THEN Goto(t, "get_return") /\ UNCHANGED loc
     ELSE Goto(t, "done") /\ loc' = [loc EXCEPT ![t].status = "ok"]
  /\ UNCHANGED << getVars, PREDICTOR, predictors >>

\* get_predictor: return _PREDICTOR.
GetReturn(t) ==
  /\ pc[t] = "get_return"
  /\ loc' = [loc EXCEPT ![t].got = predictors.current, ![t].status = "ok"]
  /\ Goto(t, "done")
  /\ UNCHANGED << getVars, PREDICTOR, predictors, LOCK >>

\* The thread is free for its next call.
NextCallGet(t) ==
  /\ pc[t] = "done"
  /\ loc' = [loc EXCEPT ![t] = NoLocals]
  /\ Goto(t, "idle")
  /\ UNCHANGED << getVars, PREDICTOR, predictors, LOCK >>

GetThread(t) ==
  \/ \E op \in {"init_service", "get_predictor"} : StartGet(t, op)
  \/ GetCheck(t)
  \/ InitAcquire(t)
  \/ InitCheck(t)
  \/ Construct(t)
  \/ Assign(t)
  \/ InitRelease(t)
  \/ GetReturn(t)
  \/ NextCallGet(t)

NextGet == \E t \in Threads : GetThread(t)

SpecGet == InitGet /\ [][NextGet]_vars

\* ------------------------------------------- functions applied on their own
\* Every variable of the service; a function applied on its own leaves them.
restVars ==
  << artifacts, meta, PREDICTOR, SMOOTHERS, heap, calFile, LOCK, pc, loc,
     lastCall, idleRun, nsteps, heap0 >>

InitAlone ==
  /\ InitCommon
  /\ artifacts = Artifacts
  /\ meta = [best_thresh |-> DefaultThreshTenths]

\* PlattCalibrator objects: PlattCalibrator(), objects with one of the two
\* parameters None (is_fit is False for them, line 125), and fitted ones.
HalfFitCals ==
  { [coef_ |-> 4, intercept_ |-> None, isnone |-> TRUE],
    [coef_ |-> None, intercept_ |-> 1, isnone |-> TRUE] }
ProbeCals ==
  {UnfitCal} \cup HalfFitCals \cup
  { [coef_ |-> c, intercept_ |-> i, isnone |-> FALSE] :
      c \in {1, 4, 10}, i \in {-2, 0, 1} }
ProbeRaws == 0 .. 10

\* cal.predict_proba(raw) is called outside predict.
ApplyPredictProba(cal, raw) ==
  /\ applied' = [fn |-> "predict_proba", cal |-> cal, raw |-> raw,
                 ret |-> PredictProba(cal, raw)]
  /\ UNCHANGED << restVars, engine, stats, predictors, collector, pollers, chatVars >>

\* Lines 209-217 of predict on a raw probability and a loaded calibrator.
ApplyCalibrate(cal, raw) ==
  /\ applied' = [fn |-> "calibrate", cal |-> cal, raw |-> raw,
                 ret |-> [raised |-> FALSE, value |-> Calibrate(cal, raw)]]
  /\ UNCHANGED << restVars, engine, stats, predictors, collector, pollers, chatVars >>

NextCalibrator ==
  \E cal \in ProbeCals, raw \in ProbeRaws :
    ApplyPredictProba(cal, raw) \/ ApplyCalibrate(cal, raw)

SpecCalibrator == InitAlone /\ [][NextCalibrator]_vars

\* --------------------------------------------------------- _extract_features
\* Values a record can hold under a name: a number, None, or a string with
\* what float() makes of it (numeric is FALSE when float(text) raises).
NumVal(n) == [kind |-> "num", text |-> "", numeric |-> TRUE, v |-> n]
NullVal == [kind |-> "null", text |-> "", numeric |-> FALSE, v |-> 0]
StrVal(text, numeric, n) ==
  [kind |-> "str", text |-> text, numeric |-> numeric, v |-> n]

\* Python truthiness of a value, as "x or 0.0" tests it.
Falsy(val) ==
  \/ val.kind = "null"
  \/ val.kind = "num" /\ val.v = 0
  \/ val.kind = "str" /\ val.text = ""

\* float(x or 0.0): ValueError on a string that is not a number.
ToFloat(val) ==
  IF Falsy(val) THEN [raised |-> FALSE, value |-> 0]
  ELSE IF val.numeric THEN [raised |-> FALSE, value |-> val.v]
  ELSE [raised |-> TRUE, value |-> 0]

\* row.get(name, 0.0)
Get(row, name) == IF name \in DOMAIN row THEN row[name] ELSE NumVal(0)

\* float32 keeps 24 significant bits.
Float32Bits == 24

\* The distance between neighbouring float32 values at magnitude a.
RECURSIVE Ulp(_)
Ulp(a) == IF a < 2^Float32Bits THEN 1 ELSE 2 * Ulp(a \div 2)

\* dtype=np.float32 on an integer-valued float: round to nearest, ties to even.
Float32(n) ==
  LET a == IF n < 0 THEN 0 - n ELSE n
      u == Ulp(a)
      q == a \div u
      rem == a % u
      up == 2 * rem > u \/ (2 * rem = u /\ q % 2 = 1)
      r == (IF up THEN q + 1 ELSE q) * u
  IN  IF n < 0 THEN 0 - r ELSE r

\* [float(row.get(name, 0.0) or 0.0) for name in feature_names]
FloatList(row, names) == [i \in 1 .. Len(names) |-> ToFloat(Get(row, names[i]))]

\* An adapter that leaves out the names the record does not hold.
ExtractFeaturesSkipAbsent(row, schema) ==
  LET names == SelectSeq(schema, LAMBDA n : n \in DOMAIN row)
      vals == FloatList(row, names)
  IN  IF \E i \in 1 .. Len(names) : vals[i].raised
      THEN [raised |-> TRUE, vec |-> << >>]
      ELSE [raised |-> FALSE,
            vec |-> [i \in 1 .. Len(names) |-> Float32(vals[i].value)]]

\* _extract_features: the row of the [1, D] array, or the exception.
ExtractFeatures(row, schema) ==
  LET vals == FloatList(row, schema)
  IN  IF \E i \in 1 .. Len(schema) : vals[i].raised
      THEN [raised |-> TRUE, vec |-> << >>]
      ELSE [raised |-> FALSE,
            vec |-> [i \in 1 .. Len(schema) |-> Float32(vals[i].value)]]

FeatureNames == {"a", "b"}
FeatureValues ==
  { NumVal(0), NumVal(3), NumVal(2^Float32Bits + 1), NullVal,
    StrVal("", FALSE, 0), StrVal("7", TRUE, 7), StrVal("abc", FALSE, 0) }
FeatureRecords == UNION { [D -> FeatureValues] : D \in SUBSET FeatureNames }
Schemas == { << >>, <<"a">>, <<"a", "b">>, <<"b", "a">>, <<"a", "b", "c">> }

\* _extract_features(record, schema) is called.
ApplyExtract(record, schema) ==
  /\ applied' = [fn |-> "extract", record |-> record, schema |-> schema,
                 ret |-> ExtractFeatures(record, schema)]
  /\ UNCHANGED << restVars, engine, stats, predictors, collector, pollers, chatVars >>

NextAdapter == \E record \in FeatureRecords, schema \in Schemas :
                 ApplyExtract(record, schema)

SpecAdapter == InitAlone /\ [][NextAdapter]_vars

\* ---------------------------------------------------------------- RiskEngine
\* z-scores and iforest scores are in hundredths, risks in units of 1/18000.
RiskOne == 18000
ZClip == 300
StatScale == 300
ScoreScale == 300
WStat == 6
WAnom == 4
MediumAbove == 45
HighAbove == 75
MinHistory == 30
FitWindow == 120

\* n/d as a risk.
Frac(n, d) == (RiskOne * n) \div d

Abs(n) == IF n < 0 THEN 0 - n ELSE n
Clip(n, lo, hi) == Max(lo, Min(hi, n))

\* idx: the positions of the six drivers in the vector of nine features.
DriverIdx == {1, 3, 4, 5, 6, 9}

RECURSIVE SumOver(_, _)
SumOver(f, S) ==
  IF S = {} THEN 0
  ELSE LET i == CHOOSE j \in S : TRUE IN f[i] + SumOver(f, S \ {i})

\* clipped_mean of the drivers' z-scores, divided by 3.0 and clipped to [0, 1].
RiskStat(z) ==
  LET v == [i \in DriverIdx |-> Abs(Clip(z[i], 0 - ZClip, ZClip))]
  IN  Clip(Frac(SumOver(v, DriverIdx), Cardinality(DriverIdx) * StatScale),
           0, RiskOne)

\* risk_if taken from the forest's score whether it is fitted or not.
RiskIfUnguarded(ready, score) == Clip(Frac(score, ScoreScale), 0, RiskOne)

\* risk_if: 0.0 until the forest is fitted, then -score_samples / 3.0 clipped.
RiskIf(ready, score) ==
  IF ready THEN Clip(Frac(score, ScoreScale), 0, RiskOne) ELSE 0

\* risk = 0.6 * ... + 0.4 * risk_if
Risk(z, ready, score) == (WStat * RiskStat(z) + WAnom * RiskIf(ready, score)) \div 10

\* Tiers with the cut-offs counted in.
RiskLevelInclusive(risk) ==
  IF risk >= Frac(HighAbove, 100) THEN "high"
  ELSE IF risk >= Frac(MediumAbove, 100) THEN "medium"
  ELSE "low"

\* level, lines 377-379.
RiskLevel(risk) ==
  IF risk > Frac(HighAbove, 100) THEN "high"
  ELSE IF risk > Frac(MediumAbove, 100) THEN "medium"
  ELSE "low"

\* Fitting on every call once the history is long enough.
ShouldFitAlways(ready, n) == n > MinHistory

\* line 361: the forest is fitted on this call.
ShouldFit(ready, n) == ~ready /\ n > MinHistory

\* The z-scores OnlineStats.z can return (the first update makes mu = x, so
\* the first call sees zeros) and the values of -iforest.score_samples.
MaxUpdates == 125
Same(d, o) == [i \in 1 .. 9 |-> IF i \in DriverIdx THEN d ELSE o]
ZVectors ==
  { Same(0, 0), Same(200, 0), Same(200, 900), Same(225, 0), Same(159, -50),
    Same(-400, 0), [Same(300, 0) EXCEPT ![1] = -150, ![9] = 0] }
Scores == {0, 99, 225, 300, 450}

\* RiskEngine.update_and_score(x), with what stats.z(x) and the forest give.
UpdateAndScore(zx, score) ==
  LET n == engine.X_hist + 1
      fit == ShouldFit(engine.if_ready, n)
      ready == engine.if_ready \/ fit
      z == IF engine.X_hist = 0 THEN Same(0, 0) ELSE zx
      risk == Risk(z, ready, score)
  IN  /\ engine.X_hist < MaxUpdates
      /\ engine' = [ if_ready |-> ready, X_hist |-> n,
                     fits |-> IF fit THEN engine.fits + 1 ELSE engine.fits,
                     fit_rows |-> IF fit THEN Min(n, FitWindow)
                                  ELSE engine.fit_rows ]
      /\ applied' = [ fn |-> "update_and_score", z |-> z, ready |-> ready,
                      score |-> score, risk_if |-> RiskIf(ready, score),
                      risk |-> risk, level |-> RiskLevel(risk) ]
      /\ UNCHANGED << restVars, stats, predictors, collector, pollers, chatVars >>

NextRisk == \E zx \in ZVectors, score \in Scores : UpdateAndScore(zx, score)

SpecRisk == InitAlone /\ [][NextRisk]_vars

\* --------------------------------------------------------------- OnlineStats
\* One component of x, mu and var, in fixed point rounded down: x in
\* thousandths, mu in millionths, var in units of 1e-9; alpha in twentieths.
StatsAlpha == 1
VarFloor == 1000
MaxStatUpdates == 4
Samples == {0, 10, 30}

\* OnlineStats.update(x); n counts the calls.
StatsAfterUpdate(st, x) ==
  IF st.isnone
  THEN [isnone |-> FALSE, mu |-> 1000 * x, var |-> VarFloor, n |-> 1]
  ELSE LET mu == ((20 - StatsAlpha) * st.mu + StatsAlpha * 1000 * x) \div 20
           d == 1000 * x - mu
       IN  [isnone |-> FALSE, mu |-> mu,
            var |-> ((20 - StatsAlpha) * st.var
                       + StatsAlpha * ((d * d) \div 1000)) \div 20,
            n |-> st.n + 1]

\* z dividing by the stored variance as it is.
ZVarianceStored(st) == st.var

\* np.maximum(self.var, 1e-6): the variance whose root z divides by.
ZVariance(st) == Max(st.var, VarFloor)

StatsUpdate(x) ==
  /\ stats.n < MaxStatUpdates
  /\ stats' = StatsAfterUpdate(stats, x)
  /\ UNCHANGED << restVars, engine, applied, predictors, collector, pollers, chatVars >>

\* OnlineStats.z(x): zeros while mu is None, else (x - mu) / std.
StatsZ(x) ==
  /\ applied' = [fn |-> "z", x |-> x, zeros |-> stats.isnone,
                 diff |-> IF stats.isnone THEN 0 ELSE 1000 * x - stats.mu,
                 divisor2 |-> IF stats.isnone THEN VarFloor ELSE ZVariance(stats)]
  /\ UNCHANGED << restVars, engine, stats, predictors, collector, pollers, chatVars >>

NextStats == \E x \in Samples : StatsUpdate(x) \/ StatsZ(x)

SpecStats == InitAlone /\ [][NextStats]_vars

\* ------------------------------------------------------- _is_idle on its own
\* What a record says about each field: nothing (Absent), None, or a number.
Absent == -2
CountSays == {Absent, None, Eps, Eps + 1}
FractionSays ==
  {Absent, None, ActiveFractionMax - 1, ActiveFractionMax, ActiveFractionMax + 1}
Says ==
  [ ks_event_count : CountSays, ks_keydowns : CountSays, ks_keyups : CountSays,
    mouse_move_count : CountSays, mouse_click_count : CountSays,
    mouse_scroll_count : CountSays, active_seconds_fraction : FractionSays,
    mouse_speed_mean : {Absent, 5000000} ]

\* The record with the fields that are not Absent.
RowOf(a) == [n \in {m \in DOMAIN a : a[m] # Absent} |-> a[n]]

\* _is_idle(row) is called once.
ApplyIsIdle(a) ==
  /\ applied = NoApplied
  /\ applied' = [fn |-> "is_idle", says |-> a, ret |-> IsIdle(RowOf(a))]
  /\ UNCHANGED << restVars, engine, stats, predictors, collector, pollers, chatVars >>

NextIdle == applied = NoApplied /\ \E a \in Says : ApplyIsIdle(a)

SpecIdle == InitAlone /\ [][NextIdle]_vars

\* ------------------------------------------------------ TelemetryCollector
MaxPollers == 3
MaxSamples == 3
MaxMinutes == 2

\* start(): nothing when running; otherwise the flag is set, the listeners
\* are started and a new daemon thread is started on _poll_loop.
CollectorStart ==
  /\ IF collector.running
     THEN UNCHANGED << collector, pollers >>
     ELSE /\ Len(pollers) < MaxPollers
          /\ collector' = [collector EXCEPT !.running = TRUE,
                                             !.listening = TRUE,
                                             !.thread = Len(pollers) + 1]
          /\ pollers' = Append(pollers, "test")
  /\ UNCHANGED << restVars, engine, applied, stats, predictors, chatVars >>

\* stop(): the flag is cleared and the listeners are stopped; the poll
\* thread is neither joined nor told apart from a later one.
CollectorStop ==
  /\ collector' = [collector EXCEPT !.running = FALSE, !.listening = FALSE]
  /\ UNCHANGED << restVars, engine, applied, stats, predictors, pollers, chatVars >>

\* _poll_loop: while self.running, then time.sleep(0.5).
PollTest(i) ==
  /\ pollers[i] = "test"
  /\ pollers' = [pollers EXCEPT ![i] = IF collector.running THEN "sleep"
                                                            ELSE "ended"]
  /\ UNCHANGED << restVars, engine, applied, stats, predictors, collector, chatVars >>

\* The rest of one iteration, under self.lock: an idle sample is appended
\* and, when the minute is over, _finalize_minute appends a MinuteFeatures
\* and clears the samples.
PollSample(i, minute_over) ==
  /\ pollers[i] = "sleep"
  /\ pollers' = [pollers EXCEPT ![i] = "test"]
  /\ IF minute_over
     THEN /\ collector.per_minute < MaxMinutes
          /\ collector' = [collector EXCEPT !.per_minute = @ + 1,
                                             !.idle_samples = 0]
     ELSE /\ collector.idle_samples < MaxSamples
          /\ collector' = [collector EXCEPT !.idle_samples = @ + 1]
  /\ UNCHANGED << restVars, engine, applied, stats, predictors, chatVars >>

\* The threads that are executing _poll_loop.
Polling == { i \in DOMAIN pollers : pollers[i] # "ended" }

NextCollector ==
  \/ CollectorStart
  \/ CollectorStop
  \/ \E i \in DOMAIN pollers : PollTest(i)
  \/ \E i \in DOMAIN pollers : \E minute_over \in BOOLEAN :
        PollSample(i, minute_over)

SpecCollector == InitAlone /\ [][NextCollector]_vars

\* ---------------------------------------------------------- chatbot_service
MaxTurns == 7

\* Values STRESS_BOT_HISTORY_MAX may be set to.
HistoryMaxima == { DefaultHistoryMax, 4, 3 }

\* The chatbot module has been imported.
InitChat ==
  /\ artifacts = Artifacts
  /\ meta = [best_thresh |-> DefaultThreshTenths]
  /\ PREDICTOR = NoPredictor
  /\ SMOOTHERS = [u \in Users |-> 0]
  /\ heap = << >>
  /\ calFile = [u \in Users |-> NoFile]
  /\ LOCK = 0
  /\ pc = [t \in Threads |-> "idle"]
  /\ loc = [t \in Threads |-> NoLocals]
  /\ lastCall = NoCall
  /\ idleRun = [u \in Users |-> 0]
  /\ nsteps = 0
  /\ heap0 = << >>
  /\ engine = NewRiskEngine
  /\ applied = NoApplied
  /\ stats = NewStats
  /\ predictors = [built |-> 0, current |-> 0]
  /\ collector = NewCollector
  /\ pollers = << >>
  /\ HISTORY_MESSAGES_MAX \in HistoryMaxima
  /\ SESSIONS = [sid \in SessionIds |-> NoSession]
  /\ lastChat = NoChat

\* deque.append with maxlen: the item goes to the right end and items fall
\* off the left end while the deque is too long.
RECURSIVE Trim(_, _)
Trim(q, maxlen) == IF Len(q) > maxlen THEN Trim(Tail(q), maxlen) ELSE q
DequeAppend(q, item, maxlen) == Trim(Append(q, item), maxlen)

\* _get_history: the session's deque, an empty one made if there is none.
GetHistory(sessions, sid) ==
  IF sessions[sid].exists THEN sessions
  ELSE [sessions EXCEPT ![sid] = [exists |-> TRUE, msgs |-> << >>]]

HumanMessage(turn) == [role |-> "Human", turn |-> turn]
AIMessage(turn) == [role |-> "AI", turn |-> turn]

\* chat_with_bot(data): session_id and message are "" when missing or empty,
\* replies says whether _model.invoke returns or raises.
ChatWithBot(session_id, message, replies) ==
  /\ IF session_id = "" \/ message = ""
     THEN /\ lastChat' = [lastChat EXCEPT !.op = "chat", !.status = 400,
                                          !.sid = session_id]
          /\ UNCHANGED SESSIONS
     ELSE LET got == GetHistory(SESSIONS, session_id)
              turn == lastChat.turns + 1
              h1 == DequeAppend(got[session_id].msgs, HumanMessage(turn),
                                HISTORY_MESSAGES_MAX)
              h2 == DequeAppend(h1, AIMessage(turn), HISTORY_MESSAGES_MAX)
          IN  IF ~replies
              THEN /\ lastChat' = [lastChat EXCEPT !.op = "chat",
                                     !.status = 500, !.sid = session_id]
                   /\ SESSIONS' = got
              ELSE /\ lastChat.turns < MaxTurns
                   /\ lastChat' = [op |-> "chat", sid |-> session_id,
                                   status |-> 200, turns |-> turn]
                   /\ SESSIONS' = [got EXCEPT ![session_id].msgs = h2]
  /\ UNCHANGED << restVars, engine, applied, stats, predictors, collector,
                  pollers, HISTORY_MESSAGES_MAX >>

\* reset_session(data)
ResetSession(session_id) ==
  /\ IF session_id = ""
     THEN /\ lastChat' = [lastChat EXCEPT !.op = "reset", !.status = 400,
                                          !.sid = session_id]
          /\ UNCHANGED SESSIONS
     ELSE /\ lastChat' = [lastChat EXCEPT !.op = "reset", !.status = 200,
                                          !.sid = session_id]
          /\ SESSIONS' = [SESSIONS EXCEPT ![session_id] = NoSession]
  /\ UNCHANGED << restVars, engine, applied, stats, predictors, collector,
                  pollers, HISTORY_MESSAGES_MAX >>

NextChat ==
  \/ \E sid \in SessionIds \cup {""}, message \in {"", "hi"},
         replies \in BOOLEAN : ChatWithBot(sid, message, replies)
  \/ \E sid \in SessionIds \cup {""} : ResetSession(sid)

SpecChat == InitChat /\ [][NextChat]_vars

\* -------------------------------------------------------------- properties
\* The EMA, hysteresis state and idle count a user's next window starts from.
SmootherFields(u) ==
  IF SMOOTHERS[u] = 0 THEN << None, 0, 0 >>
  ELSE << SmootherOf(u).ema, SmootherOf(u).state, SmootherOf(u).idle_count >>

\* C1: once a user's run of consecutive scored idle windows has reached
\* idle_reset_k, the smoother's EMA is the baseline and its state OFF, and
\* the call that scored the latest of these windows reported not stressed
\* with the baseline as smoothed_prob, whatever probabilities were supplied.
C1_IdleSuppression ==
  \A u \in Users :
    idleRun[u] >= IdleResetK =>
      /\ SMOOTHERS[u] # 0
      /\ SmootherOf(u).ema = T(BaselineTenths)
      /\ SmootherOf(u).state = 0
      /\ (lastCall.op = "predict" /\ lastCall.status = "ok" /\ lastCall.uid = u)
           => /\ ~lastCall.out.is_stressed
              /\ lastCall.out.smoothed_prob = T(BaselineTenths)

\* A third window for harsh, the second idle one in a row, has been scored.
C1_Witness ==
  /\ idleRun["harsh"] = IdleResetK
  /\ SMOOTHERS["amy"] = 0
  /\ nsteps = IdleResetK + 1
  /\ lastCall.op = "predict" /\ lastCall.status = "ok" /\ lastCall.idle
  /\ lastCall.out.smoothed_prob = T(BaselineTenths)

\* C4: a predict call on a window classified idle reports is_stressed false.
C4_IdleOverride ==
  (lastCall.op = "predict" /\ lastCall.status = "ok" /\ lastCall.idle)
    => ~lastCall.out.is_stressed

\* The first idle window after an active one that had turned harsh ON, with
\* the EMA still above the off threshold: step itself would have said ON.
C4_Witness ==
  /\ lastCall.op = "predict" /\ lastCall.status = "ok" /\ lastCall.idle
  /\ lastCall.uid = "harsh" /\ idleRun["harsh"] = 1
  /\ SMOOTHERS["amy"] = 0 /\ nsteps = 2
  /\ lastCall.out.smoothed_prob > SmootherOf("harsh").off_t
  /\ ~lastCall.out.is_stressed

\* C8: a scoring call in which the scaler or head raises reports the error
\* and leaves every EMA, hysteresis state, idle count and calibrator record
\* as it was.
C8_BackendErrorNoUpdate ==
  [][ \A u \in Users, row \in Rows :
        PredictFromRow(u, row, None) =>
          /\ lastCall'.status = "raised"
          /\ \A v \in Users : SmootherFields(v)' = SmootherFields(v)
          /\ calFile' = calFile ]_vars

\* A scoring call raised after harsh, the only user seen, had been turned ON.
C8_Witness ==
  /\ lastCall.op = "predict" /\ lastCall.status = "raised"
  /\ PREDICTOR.set
  /\ SMOOTHERS["amy"] = 0 /\ SMOOTHERS["harsh"] # 0
  /\ SmootherOf("harsh").state = 1

\* C9: train_user_calibrator with fewer than min_rows qualifying rows ends
\* in an error and changes no calibrator record and no smoother.
C9_TooFewRowsNoMutation ==
  [][ \A u \in Users, csv \in BOOLEAN, n \in RowCounts, fit \in FitResults :
        (n < MinRows /\ TrainUserCalibrator(u, csv, n, fit)) =>
          /\ lastCall'.status # "ok"
          /\ calFile' = calFile
          /\ heap' = heap /\ SMOOTHERS' = SMOOTHERS ]_vars

\* A fit was refused for want of rows while no calibrator is stored.
C9_Witness ==
  /\ lastCall.op = "train" /\ lastCall.status = "ValueError: need rows"
  /\ \A u \in Users : calFile[u] = NoFile

C11_OtherUsersUntouched ==
  [][ lastCall'.op = "predict" =>
        \E u \in Users :
          /\ lastCall'.status = "ok" => u = lastCall'.uid
          /\ \A v \in Users \ {u} :
               /\ SMOOTHERS'[v] = SMOOTHERS[v]
               /\ SmootherFields(v)' = SmootherFields(v) ]_vars

\* amy's first window has been scored after harsh had been turned ON.
C11_Witness ==
  /\ lastCall.op = "predict" /\ lastCall.status = "ok"
  /\ lastCall.uid = "amy" /\ nsteps = 2
  /\ SMOOTHERS["harsh"] # 0 /\ SmootherOf("harsh").state = 1
  /\ SMOOTHERS["amy"] # 0

\* p lies strictly inside the smoother's dead band (off_t, on_t).
InBand(s, p) == s.off_t < p /\ p < s.on_t

\* C2 as claimed: a step, idle or not, whose probability lies strictly
\* inside the dead band returns the decision the smoother held before it.
C2_NoFlickerAnyStep ==
  [][ \A p \in StepTenths, i \in BOOLEAN :
        (StepCall(p, i) /\ InBand(heap[1], T(p)))
          => heap'[1].state = heap[1].state ]_vars

\* C2 amended: the same for every step on which the idle reset does not
\* fire, that is every step that is not the idle_reset_k-th or a later one
\* of a run of consecutive idle steps.
C2_NoFlickerWithoutReset ==
  [][ \A p \in StepTenths, i \in BOOLEAN :
        (StepCall(p, i) /\ InBand(heap[1], T(p))
           /\ ~(i /\ idleRun["harsh"] + 1 >= IdleResetK))
          => heap'[1].state = heap[1].state ]_vars

\* An idle step inside the dead band, the first of its run, left the
\* smoother ON.
C2_Witness ==
  /\ lastCall.op = "step" /\ lastCall.idle /\ idleRun["harsh"] = 1
  /\ InBand(heap[1], lastCall.out.calibrated_prob)
  /\ lastCall.out.is_stressed

\* C5 as claimed: with the EMA set, the smoothed_prob a step returns lies
\* between the previous smoothed_prob and the probability passed in.
C5_ConvexAnyStep ==
  [][ \A p \in StepTenths, i \in BOOLEAN :
        (StepCall(p, i) /\ heap[1].ema # None)
          => /\ Min(heap[1].ema, T(p)) <= heap'[1].ema
             /\ heap'[1].ema <= Max(heap[1].ema, T(p)) ]_vars

\* C5 amended: the bound holds for every step on which the idle reset does
\* not fire; a step on which it fires returns the baseline.
C5_ConvexWithoutReset ==
  [][ \A p \in StepTenths, i \in BOOLEAN :
        (StepCall(p, i) /\ heap[1].ema # None) =>
          IF i /\ idleRun["harsh"] + 1 >= IdleResetK
          THEN heap'[1].ema = T(BaselineTenths)
          ELSE /\ Min(heap[1].ema, T(p)) <= heap'[1].ema
               /\ heap'[1].ema <= Max(heap[1].ema, T(p)) ]_vars

\* A second, active step blended the EMA strictly between the two values.
C5_Witness ==
  /\ lastCall.op = "step" /\ ~lastCall.idle /\ nsteps = 2
  /\ lastCall.out.smoothed_prob # lastCall.out.calibrated_prob
  /\ lastCall.out.smoothed_prob > T(1)
  /\ lastCall.out.smoothed_prob < T(8)

\* The smoother user u had when the threads were started.
SmootherBefore(u) ==
  IF u = "harsh" /\ Len(heap0) >= 1 THEN heap0[1]
  ELSE SmootherFor(PREDICTOR.default_thresh)

\* Thread t's scoring call run on its own on smoother s.
RunAlone(s, t) == AfterStep(Step(s, loc[t].p, loc[t].idle), loc[t].idle)

\* C3: when two scoring calls for the same user have both returned, the
\* user's smoother is what running the two calls one after the other, in
\* one of the two orders, makes of the smoother the user had before.
C3_CallsSerialize ==
  ( /\ \A t \in Threads : pc[t] = "done" /\ loc[t].status = "ok"
    /\ loc[1].uid = loc[2].uid )
  => SmootherOf(loc[1].uid) \in
       { RunAlone(RunAlone(SmootherBefore(loc[1].uid), 1), 2),
         RunAlone(RunAlone(SmootherBefore(loc[1].uid), 2), 1) }

\* C6: a registry entry, once made, is never replaced or removed; every
\* thread that has looked its user up works on the object registered for
\* that user; and no more objects were built than users are registered.
C6_OneSmootherPerUser ==
  [][ /\ \A u \in Users : SMOOTHERS[u] # 0 => SMOOTHERS'[u] = SMOOTHERS[u]
      /\ \A t \in Threads :
           loc'[t].sm # 0 => loc'[t].sm = SMOOTHERS'[loc'[t].uid]
      /\ Len(heap') = Cardinality({ u \in Users : SMOOTHERS'[u] # 0 }) ]_vars

\* Both threads scored a first window of amy and hold the same object.
C6_Witness ==
  /\ Len(heap0) = 0
  /\ \A t \in Threads :
       pc[t] = "done" /\ loc[t].status = "ok" /\ loc[t].uid = "amy"
  /\ loc[1].sm = loc[2].sm /\ loc[1].sm = SMOOTHERS["amy"]
  /\ Len(heap) = 1

\* C7: a scoring call that loads a user's calibrator beside a training call
\* reads a complete record, the previous or the new one, or finds no file,
\* and it raises only if the scaler or head raised.
C7_ReadersSeeCompleteRecords ==
  \A t \in Threads :
    loc[t].op = "predict" =>
      /\ loc[t].saw \in {NoFile, OlderRecord} \cup CalRecords
      /\ loc[t].status = "raised" => loc[t].backend = None

Numeric(record) == \A n \in DOMAIN record : record[n].kind = "num"

\* C13: the adapter returns a vector for every record and schema, with 0.0
\* for each schema field that is absent, null or not a number in the record.
C13_AdapterNeverFails ==
  applied.fn = "extract" =>
    /\ ~applied.ret.raised
    /\ Len(applied.ret.vec) = Len(applied.schema)
    /\ \A i \in 1 .. Len(applied.schema) :
         LET n == applied.schema[i]
             r == applied.record
         IN  (n \notin DOMAIN r \/ r[n].kind = "null"
                \/ (r[n].kind = "str" /\ ~r[n].numeric))
               => applied.ret.vec[i] = 0

\* C14 as claimed: on a numeric record the vector has the schema's length
\* and its i-th entry is the record's value under schema[i], 0.0 if absent.
C14_EntriesAreRecordValues ==
  (applied.fn = "extract" /\ Numeric(applied.record)) =>
    /\ ~applied.ret.raised
    /\ Len(applied.ret.vec) = Len(applied.schema)
    /\ \A i \in 1 .. Len(applied.schema) :
         LET n == applied.schema[i]
         IN  applied.ret.vec[i] =
               IF n \in DOMAIN applied.record THEN applied.record[n].v ELSE 0

\* C14, amended: on a numeric record the vector has the schema's length and
\* its i-th entry is the record's value under schema[i] rounded to single
\* precision, 0.0 if absent; a value single precision holds is kept as it
\* is, an empty record gives zeros, and {a: 3.0} with [a, b] gives [3.0, 0.0].
C14_EntriesAreRoundedRecordValues ==
  (applied.fn = "extract" /\ Numeric(applied.record)) =>
    /\ ~applied.ret.raised
    /\ Len(applied.ret.vec) = Len(applied.schema)
    /\ \A i \in 1 .. Len(applied.schema) :
         LET n == applied.schema[i]
             x == IF n \in DOMAIN applied.record THEN applied.record[n].v ELSE 0
         IN  /\ 2 * (applied.ret.vec[i] - x) <= Ulp(x)
             /\ 2 * (x - applied.ret.vec[i]) <= Ulp(x)
             /\ applied.ret.vec[i] % Ulp(x) = 0
    /\ DOMAIN applied.record = {} =>
         \A i \in 1 .. Len(applied.schema) : applied.ret.vec[i] = 0
    /\ (applied.record = [n \in {"a"} |-> NumVal(3)]
          /\ applied.schema = <<"a", "b">>) => applied.ret.vec = <<3, 0>>

\* {a: 3.0} has been converted under the schema [a, b].
C14_Witness ==
  /\ applied.fn = "extract" /\ applied.schema = <<"a", "b">>
  /\ applied.record = [n \in {"a"} |-> NumVal(3)]
  /\ applied.ret.vec = <<3, 0>>

\* C15: in a predict call on an idle window the calibrated_prob reported is
\* at most idle_clamp_prob, on any other window it is the calibrated
\* probability itself, and in both cases it is the value smoother.step blends
\* into the EMA (or seeds it with) unless the idle reset fires.
C15_ClampBeforeSmoothing ==
  [][ (nsteps' = nsteps + 1 /\ lastCall'.op = "predict") =>
        LET u == lastCall'.uid
            o == lastCall'.out
            f == calFile[u]
            unclamped ==
              IF f.kind = "json"
              THEN T(Sigmoid(f.coef_ * (o.raw_prob \div Tenth) + 10 * f.intercept_))
              ELSE o.raw_prob
            before == SmootherFields(u)
            resets == lastCall'.idle /\ before[3] + 1 >= IdleResetK
        IN  /\ lastCall'.idle => o.calibrated_prob <= T(IdleClampTenths)
            /\ ~lastCall'.idle => o.calibrated_prob = unclamped
            /\ ~resets => o.smoothed_prob =
                  EmaUpdate(before[1], o.calibrated_prob, lastCall'.idle) ]_vars

\* An idle window with raw probability 0.9 was the first one scored for its
\* user: 0.1 was reported as calibrated_prob and seeded the EMA.
C15_Witness ==
  /\ lastCall.op = "predict" /\ lastCall.status = "ok" /\ lastCall.idle
  /\ nsteps = 1
  /\ lastCall.out.raw_prob = T(9)
  /\ lastCall.out.calibrated_prob = T(IdleClampTenths)
  /\ lastCall.out.smoothed_prob = T(IdleClampTenths)

\* C16: the forest is not ready while the history holds 30 vectors or fewer,
\* is ready from the first call that makes it longer, has been fitted once
\* exactly when it is ready, and never stops being ready.
C16_FitOnce ==
  /\ [](/\ engine.if_ready <=> engine.X_hist > MinHistory
        /\ engine.fits = IF engine.if_ready THEN 1 ELSE 0)
  /\ [][engine.if_ready => engine'.if_ready /\ engine'.fits = engine.fits]_vars

\* The call after the one that fitted the forest has returned.
C16_Witness ==
  /\ engine.X_hist = MinHistory + 2 /\ engine.if_ready /\ engine.fits = 1
  /\ engine.fit_rows = MinHistory + 1
  /\ applied.fn = "update_and_score" /\ applied.ready

\* C17: the history never holds more than 120 vectors.
C17_HistoryBounded == engine.X_hist <= FitWindow

\* The sum of the drivers' |z| after clipping to +-3, in hundredths.
DriverSum(z) == SumOver([i \in DriverIdx |-> Min(Abs(z[i]), ZClip)], DriverIdx)

\* risk as the claim writes it, times 9000:
\* 0.6 * (sum / 6) / 3 + 0.4 * anomaly_score with anomaly_score = score / 3.
FusedTimes9000(z, ready, score) ==
  3 * DriverSum(z) + 12 * (IF ready THEN Clip(score, 0, ScoreScale) ELSE 0)

C20_ProbabilitiesInUnitInterval ==
  (lastCall.op = "predict" /\ lastCall.status = "ok") =>
    \A x \in { lastCall.out.raw_prob, lastCall.out.calibrated_prob,
                lastCall.out.smoothed_prob } : 0 <= x /\ x <= T(10)

\* An active window with raw probability 0.9 was scored through a fitted
\* calibrator after an earlier window of the same user.
C20_Witness ==
  /\ lastCall.op = "predict" /\ lastCall.status = "ok" /\ ~lastCall.idle
  /\ lastCall.out.has_calibrator
  /\ lastCall.out.raw_prob = T(9) /\ lastCall.out.calibrated_prob = T(8)
  /\ lastCall.out.smoothed_prob # lastCall.out.calibrated_prob

\* C21: in every step, with the EMA and the state as the EMA update and the
\* idle reset leave them, the state goes from OFF to ON exactly when the EMA
\* is at or above on_t, from ON to OFF exactly when it is at or below off_t,
\* and stays as it is otherwise; one branch at most is taken.
C21_HysteresisRule ==
  [][ nsteps' = nsteps + 1 =>
        LET s == heap[1]
            resets == lastCall'.idle /\ s.idle_count + 1 >= IdleResetK
            mid == IF resets THEN 0 ELSE s.state
            ema == heap'[1].ema
        IN  heap'[1].state =
              IF mid = 0 /\ ema >= s.on_t THEN 1
              ELSE IF mid = 1 /\ ema <= s.off_t THEN 0
              ELSE mid ]_vars

\* A first step whose probability is the on threshold has turned the
\* smoother ON.
C21_Witness ==
  /\ lastCall.op = "step" /\ nsteps = 1
  /\ heap[1].ema = heap[1].on_t /\ heap[1].state = 1

\* C22: after every step the idle count is the length of the run of
\* consecutive idle steps ending there (0 after a step that is not idle); a
\* step sets the EMA to the baseline and the state to OFF before the
\* hysteresis exactly when it is idle and the count has reached idle_reset_k,
\* on every such step of a run, and otherwise returns the blended EMA.
C22_IdleStreak ==
  /\ [](heap[1].idle_count = idleRun["harsh"])
  /\ [][ nsteps' = nsteps + 1 =>
           LET s == heap[1]
               i == lastCall'.idle
               p == lastCall'.out.calibrated_prob
               resets == i /\ idleRun'["harsh"] >= IdleResetK
           IN  /\ idleRun'["harsh"] = IF i THEN idleRun["harsh"] + 1 ELSE 0
               /\ resets =>
                    /\ heap'[1].ema = T(BaselineTenths)
                    /\ heap'[1].state = IF T(BaselineTenths) >= s.on_t THEN 1 ELSE 0
               /\ ~resets =>
                    heap'[1].ema = EmaUpdate(s.ema, p, i) ]_vars

\* The third idle step in a row, with probability 1.0, has returned the
\* baseline.
C22_Witness ==
  /\ lastCall.op = "step" /\ lastCall.idle
  /\ idleRun["harsh"] = IdleResetK + 1 /\ heap[1].idle_count = IdleResetK + 1
  /\ lastCall.out.calibrated_prob = T(10)
  /\ heap[1].ema = T(BaselineTenths) /\ heap[1].state = 0

\* C23 as claimed: after every update the stored variance is at least 1e-6.
C23_StoredVarianceFloored == ~stats.isnone => stats.var >= VarFloor

\* C23, amended: after every update, identical samples included, the
\* variance z takes the root of and divides by is at least 1e-6 (the floor
\* is applied when z reads the variance, not where update stores it).
C23_UsedVarianceFloored ==
  (applied.fn = "z" /\ ~applied.zeros) => applied.divisor2 >= VarFloor

\* z was called after the same sample had been given three times and the
\* stored variance had decayed below the floor.
C23_Witness ==
  /\ applied.fn = "z" /\ ~applied.zeros /\ applied.diff = 0
  /\ stats.n = 3 /\ stats.var < VarFloor
  /\ applied.divisor2 = VarFloor

\* The number a field counts as: 0 when the record lacks it or holds None.
CountsAs(v) == IF v \in {Absent, None} THEN 0 ELSE v

\* C24 as claimed: is_idle holds exactly when each of the six counts is at
\* most epsilon and active_seconds_fraction is below 0.02, absent and null
\* fields counting as 0 and no other field mattering.
C24_IdleBelowThreshold ==
  applied.fn = "is_idle" =>
    (applied.ret <=>
       /\ \A k \in ActivityCounts : CountsAs(applied.says[k]) <= 1
       /\ CountsAs(applied.says["active_seconds_fraction"]) < 20000)

\* C24, amended: the same with active_seconds_fraction at most 0.02.
C24_IdleAtMostThreshold ==
  applied.fn = "is_idle" =>
    (applied.ret <=>
       /\ \A k \in ActivityCounts : CountsAs(applied.says[k]) <= 1
       /\ CountsAs(applied.says["active_seconds_fraction"]) <= 20000)

\* A record with a null count, an absent count, counts at epsilon, another
\* field set, and active_seconds_fraction 0.02 exactly was classified idle.
C24_Witness ==
  /\ applied.fn = "is_idle" /\ applied.ret
  /\ applied.says["active_seconds_fraction"] = ActiveFractionMax
  /\ applied.says["ks_keydowns"] = None /\ applied.says["ks_keyups"] = Absent
  /\ applied.says["mouse_move_count"] = Eps
  /\ applied.says["mouse_speed_mean"] # Absent

\* C25: a predict call on an idle window leaves the user's smoother OFF,
\* also while the idle count is below idle_reset_k; and an active window that
\* follows an idle one and whose EMA lies strictly inside the dead band is
\* reported not stressed, whatever the state was before the idle window.
C25_IdleWindowTurnsSmootherOff ==
  /\ []((lastCall.op = "predict" /\ lastCall.status = "ok" /\ lastCall.idle)
          => SmootherOf(lastCall.uid).state = 0)
  /\ [][ (nsteps' = nsteps + 1 /\ lastCall'.op = "predict" /\ ~lastCall'.idle
            /\ idleRun[lastCall'.uid] >= 1
            /\ InBand(heap'[SMOOTHERS'[lastCall'.uid]], lastCall'.out.smoothed_prob))
          => ~lastCall'.out.is_stressed ]_vars

\* harsh, with best_thresh 0.3, was turned ON by an active window at 0.9,
\* then had one idle window whose EMA 0.22 stayed above the off threshold,
\* then an active window at 0.2 whose EMA lies inside the dead band.
C25_Witness ==
  /\ lastCall.op = "predict" /\ lastCall.status = "ok" /\ ~lastCall.idle
  /\ lastCall.uid = "harsh" /\ nsteps = 3 /\ SMOOTHERS["amy"] = 0
  /\ PREDICTOR.default_thresh = 3
  /\ lastCall.out.smoothed_prob =
       (AlphaActive * T(2)
          + (20 - AlphaActive)
              * ((AlphaIdle * T(IdleClampTenths) + (20 - AlphaIdle) * T(9)) \div 20))
         \div 20
  /\ InBand(SmootherOf("harsh"), lastCall.out.smoothed_prob)
  /\ ~lastCall.out.is_stressed

\* C26: with every artifact present and init_service and get_predictor
\* calls interleaved in any way, at most one BehaviorPredictor is ever built,
\* it has been built once any call has returned, and every get_predictor
\* call returns that object, never None.
C26_PredictorBuiltOnce ==
  /\ predictors.built <= 1
  /\ \A t \in Threads :
       pc[t] = "done" =>
         /\ predictors.built = 1 /\ predictors.current = 1 /\ PREDICTOR.set
         /\ loc[t].op = "get_predictor" => loc[t].got = 1

\* Both threads found _PREDICTOR None in get_predictor; one built the
\* object and the other, let in afterwards, did not build again.
C26_Witness ==
  /\ pc[1] = "done" /\ loc[1].op = "get_predictor" /\ loc[1].made = 1
  /\ pc[2] = "init_release" /\ loc[2].op = "get_predictor" /\ loc[2].made = 0
  /\ predictors.built = 1

\* C27: whatever start() and stop() calls are made, at most one thread is
\* executing _poll_loop at any time.
C27_OnePollLoop == Cardinality(Polling) <= 1

\* C28: a training call that succeeds leaves a complete record for its
\* user, and every later scoring call of that user reads the record as it
\* is when the call is made: has_calibrator is true exactly when a record
\* with both coef_ and intercept_ is there, and on a window that is not idle
\* calibrated_prob is sigmoid(coef_ * raw_prob + intercept_) with a record
\* and raw_prob without.
C28_SavedRecordIsUsed ==
  [][ /\ (nsteps' = nsteps + 1 /\ lastCall'.op = "predict") =>
           LET f == calFile[ResolveUid(lastCall'.uid)]
               o == lastCall'.out
               complete ==
                 f.kind = "json" /\ f.coef_ # None /\ f.intercept_ # None
           IN  /\ o.has_calibrator = complete
               /\ ~lastCall'.idle =>
                    o.calibrated_prob =
                      IF complete
                      THEN T(Sigmoid(f.coef_ * (o.raw_prob \div Tenth)
                                       + 10 * f.intercept_))
                      ELSE o.raw_prob
      /\ (lastCall'.op = "train" /\ lastCall'.status = "ok"
            /\ calFile' # calFile) =>
           \E u \in Users :
             /\ calFile'[u] \in CalRecords
             /\ \A v \in Users \ {u} : calFile'[v] = calFile[v] ]_vars

\* The first window scored for a user came after the user's calibrator had
\* been trained in the same process: raw 0.9 was reported as 0.8.
C28_Witness ==
  /\ lastCall.op = "predict" /\ lastCall.status = "ok" /\ ~lastCall.idle
  /\ nsteps = 1
  /\ lastCall.out.has_calibrator
  /\ lastCall.out.raw_prob = T(9) /\ lastCall.out.calibrated_prob = T(8)

\* C29: in each of the first 30 update_and_score calls of an engine the
\* forest is not ready, risk_if is 0, the risk returned is in [0, 0.6] and
\* the level is not high; in every later call the forest is ready and the
\* risk is in [0, 1].
C29_RiskRangeByReadiness ==
  applied.fn = "update_and_score" =>
    /\ applied.ready <=> engine.X_hist > MinHistory
    /\ 0 <= applied.risk /\ applied.risk <= RiskOne
    /\ ~applied.ready =>
         /\ applied.risk_if = 0
         /\ 10 * applied.risk <= 6 * RiskOne
         /\ applied.level # "high"

\* The 30th call had every driver beyond the clip and a score the forest
\* would have put at the top: the risk was 0.6, the level medium.
C29_Witness ==
  /\ applied.fn = "update_and_score" /\ engine.X_hist = MinHistory
  /\ ~applied.ready /\ applied.score = 450
  /\ 10 * applied.risk = 6 * RiskOne /\ applied.level = "medium"

\* C30: a session's history holds Human and AI messages only, at most
\* HISTORY_MESSAGES_MAX of them, as complete Human-then-AI pairs of
\* successive turns.
C30_HistoryInPairs ==
  \A sid \in SessionIds :
    LET h == SESSIONS[sid].msgs
    IN  /\ Len(h) <= HISTORY_MESSAGES_MAX
        /\ \A i \in 1 .. Len(h) : h[i].role \in {"Human", "AI"}
        /\ Len(h) % 2 = 0
        /\ \A i \in 1 .. Len(h) :
             /\ h[i].role = IF i % 2 = 1 THEN "Human" ELSE "AI"
             /\ (i % 2 = 1) => h[i + 1].turn = h[i].turn
             /\ (i > 2) => h[i].turn > h[i - 2].turn

====
